---- MODULE Spec2Model ----
(***************************************************************************)
(* Session-ticket protection of rustls (src/rustls/src/ticketer.rs):       *)
(* AeadTicketer, a single-key AEAD ticketer, and TicketSwitcher, which     *)
(* keeps a `current` and a `previous` ticketer behind one Mutex and rolls  *)
(* them lazily from encrypt/decrypt.                                       *)
(*                                                                         *)
(* A byte is a number in 0..ByteMod-1, a byte string a sequence of bytes,  *)
(* an Option a set with at most one element.  A key is the number of the   *)
(* generator call that drew it: every draw of 32 random bytes is taken to  *)
(* be fresh.  The AEAD of ring is replaced by a small cipher with the same *)
(* interface: a keystream added to the message and a 16-byte tag that is a *)
(* function of key, nonce and ciphertext.                                  *)
(***************************************************************************)
EXTENDS Integers, Sequences, FiniteSets, TLC

VARIABLES
    clock,      \* what timebase() returns now (UNIX seconds)
    lifetime,   \* TicketSwitcher.lifetime, the rotation period
    state,      \* TicketSwitcherState: current, previous, next_switch_time
    mutex,      \* the Mutex around state: held, poisoned
    pc,         \* per thread: where it is inside encrypt/decrypt
    local,      \* per thread: the call's arguments and locals
    made,       \* number of ticketers the generator has produced so far
    heap,       \* the ticketers that have been produced and not dropped
    failed,     \* the latest rotation attempt ended in a generator failure
    ticket,     \* one observed ticket: a blob some encrypt call returned
    last,       \* the outcome of the call that completed in the latest step
    rolledAt    \* the clock value read at construction or by the latest rotation

vars == <<clock, lifetime, state, mutex, pc, local, made, heap, failed, ticket, last,
          rolledAt>>

(***************************************************************************)
(* Bounds of the model.                                                    *)
(***************************************************************************)
MaxTime == 4
MaxPeriod == 1
MaxKeys == 3
NThreads == 2

Threads == 1..NThreads
Periods == 0..MaxPeriod
InitTimes == {0}

(***************************************************************************)
(* Program constants.                                                      *)
(***************************************************************************)
NonceLen == 12
TagLen == 16
ByteMod == 256
AeadLifetime == 43200

\* A u32 is kept as two 16-bit halves, [hi, lo], so that values up to 2^32 - 1 and
\* the overflow of their arithmetic are exact.
U16 == 65536
FactoryPeriod == 21600
U32Of(hi, lo) == [hi |-> hi, lo |-> lo]

None == {}
Some(x) == {x}
TheOne(o) == CHOOSE x \in o : TRUE

Take(s, n) == SubSeq(s, 1, n)
Drop(s, n) == SubSeq(s, n + 1, Len(s))
Fill(n, b) == [i \in 1..n |-> b]

\* What a call produces: a returned Option, or a panic that unwinds the caller.
Return(v) == [panic |-> FALSE, val |-> v]
Panic == [panic |-> TRUE, val |-> None]

(***************************************************************************)
(* The external collaborators: the random source and the AEAD.             *)
(***************************************************************************)
RandFail == [ok |-> FALSE, buf |-> <<>>]
RandOk(buf) == [ok |-> TRUE, buf |-> buf]
NonceDraws == {RandFail} \cup {RandOk(Fill(NonceLen, b)) : b \in {5, 250}}

KeyStream(key, nonce, i) == (key + nonce[((i - 1) % NonceLen) + 1] + i) % ByteMod

SealTag(key, nonce, ct) ==
    [j \in 1..TagLen |->
        (key + (IF j <= NonceLen THEN nonce[j] ELSE 0)
             + (IF j <= Len(ct) THEN ct[j] ELSE 0) + Len(ct) + j) % ByteMod]

\* seal_in_place_separate_tag: the ciphertext in place, and the tag.
SealInPlaceSeparateTag(key, nonce, msg) ==
    LET ct == [i \in 1..Len(msg) |-> (msg[i] + KeyStream(key, nonce, i)) % ByteMod]
    IN  [ct |-> ct, tag |-> SealTag(key, nonce, ct)]

\* open_in_place: the plaintext, or none when the tag does not verify.
OpenInPlace(key, nonce, inout) ==
    IF Len(inout) < TagLen THEN None
    ELSE LET n == Len(inout) - TagLen
             ct == Take(inout, n)
         IN  IF SealTag(key, nonce, ct) # Drop(inout, n) THEN None
             ELSE Some([i \in 1..n |->
                          (ct[i] + ByteMod - KeyStream(key, nonce, i)) % ByteMod])

(***************************************************************************)
(* AeadTicketer.                                                           *)
(***************************************************************************)
AeadTicketerNew(key) == [key |-> key, lifetime |-> AeadLifetime]

\* enabled() of AeadTicketer and of TicketSwitcher.
AeadEnabled(self) == TRUE
SwitcherEnabled(st) == TRUE

\* Mutant: the nonce is not written in front of the ciphertext.
AeadEncryptNoNonce(self, message, rnd) ==
    IF ~rnd.ok THEN Panic
    ELSE LET sealed == SealInPlaceSeparateTag(self.key, rnd.buf, message)
         IN  Return(Some(sealed.ct \o sealed.tag))

AeadEncrypt(self, message, rnd) ==
    IF ~rnd.ok THEN Panic
    ELSE LET nonce_buf == rnd.buf
             sealed == SealInPlaceSeparateTag(self.key, nonce_buf, message)
         IN  Return(Some(nonce_buf \o sealed.ct \o sealed.tag))

\* Mutant: no length check, so cutting the nonce off a short input panics.
AeadDecryptUnchecked(self, ciphertext) ==
    IF Len(ciphertext) < NonceLen THEN Panic
    ELSE Return(OpenInPlace(self.key, Take(ciphertext, NonceLen), Drop(ciphertext, NonceLen)))

AeadDecrypt(self, ciphertext) ==
    IF Len(ciphertext) < NonceLen + TagLen THEN Return(None)
    ELSE LET nonce == Take(ciphertext, NonceLen)
             out == Drop(ciphertext, NonceLen)
         IN  Return(OpenInPlace(self.key, nonce, out))

(***************************************************************************)
(* TicketSwitcher: the pure parts of maybe_roll and decrypt.               *)
(***************************************************************************)
\* Mutant: the rotation is also due at the deadline itself.
RollDueAtDeadline(now, st) == now >= st.next_switch_time

\* Mutant: the deadline comparison is off by one second.
RollDueLate(now, st) == now > st.next_switch_time + 1

\* Mutant: any clock value other than the deadline rotates.
RollDueNotEqual(now, st) == now # st.next_switch_time

RollDue(now, st) == now > st.next_switch_time

\* Mutant: the fresh ticketer is stored as previous and current stays.
DemoteFreshAsPrevious(st, fresh) == [st EXCEPT !.previous = Some(fresh)]

\* Mutant: a previous ticketer, once there, is kept and the old current is dropped.
DemoteKeepOldest(st, fresh) ==
    [st EXCEPT !.previous = IF st.previous = None THEN Some(st.current) ELSE st.previous,
               !.current = fresh]

\* state.previous = Some(mem::replace(&mut state.current, fresh))
\* Mutant: a late call catches up by rotating twice.
DemoteCatchUp(st, fresh) ==
    [st EXCEPT !.previous = Some(fresh), !.current = AeadTicketerNew(fresh.key + 1)]

Demote(st, fresh) == [st EXCEPT !.previous = Some(st.current), !.current = fresh]

\* The box the assignment to state.previous drops: the old previous, if any.
Dropped(st) == st.previous

\* Mutant: current is moved into previous before the generator is asked.
FailedRollDemoted(st) == [st EXCEPT !.previous = Some(st.current)]

\* (self.generator)()? returns before mem::replace runs: nothing is written.
FailedRoll(st) == st

\* Mutant: the new deadline is counted from the old deadline.
SetDeadlineFromOldDeadline(st, now, period) ==
    [st EXCEPT !.next_switch_time = st.next_switch_time + period]

SetDeadline(st, now, period) == [st EXCEPT !.next_switch_time = now + period]

\* Mutant: only the current ticketer is tried.
SwitcherDecryptCurrentOnly(st, ciphertext) == AeadDecrypt(st.current, ciphertext)

\* Mutant: the demoted ticketer, when there is one, goes on encrypting.
SwitcherEncryptWithPrevious(st, message, rnd) ==
    AeadEncrypt(IF st.previous = None THEN st.current ELSE TheOne(st.previous), message, rnd)

\* state.current.encrypt(message)
SwitcherEncrypt(st, message, rnd) == AeadEncrypt(st.current, message, rnd)

\* Mutant: previous, when there is one, is tried before current.
SwitcherDecryptPreviousFirst(st, ciphertext) ==
    IF st.previous = None
    THEN [r |-> AeadDecrypt(st.current, ciphertext), tried |-> <<st.current>>]
    ELSE LET p == AeadDecrypt(TheOne(st.previous), ciphertext)
         IN  IF p.panic \/ p.val # None
             THEN [r |-> p, tried |-> <<TheOne(st.previous)>>]
             ELSE [r |-> AeadDecrypt(st.current, ciphertext),
                   tried |-> <<TheOne(st.previous), st.current>>]

\* current.decrypt(ciphertext).or_else(|| previous.as_ref().and_then(...)): the result r
\* and the ticketers that were asked, in order.
SwitcherDecryptTrace(st, ciphertext) ==
    LET c == AeadDecrypt(st.current, ciphertext)
    IN  IF c.panic \/ c.val # None THEN [r |-> c, tried |-> <<st.current>>]
        ELSE IF st.previous = None THEN [r |-> Return(None), tried |-> <<st.current>>]
        ELSE [r |-> AeadDecrypt(TheOne(st.previous), ciphertext),
              tried |-> <<st.current, TheOne(st.previous)>>]

SwitcherDecrypt(st, ciphertext) == SwitcherDecryptTrace(st, ciphertext).r

\* Mutant: the state is not guarded, every caller gets in at once.
MutexNeverHeld(m) == TRUE

\* The two ways a build treats u32 overflow: panic (overflow checks) or wrap.
Builds == {"checked", "wrapping"}

\* self.lifetime * 2, in u32.
SwitcherLifetime(period, build) ==
    LET lo == period.lo * 2
        hi == period.hi * 2 + lo \div U16
    IN  IF hi < U16 THEN Return(Some(U32Of(hi, lo % U16)))
        ELSE IF build = "checked" THEN Panic
        ELSE Return(Some(U32Of(hi % U16, lo % U16)))

\* self.lifetime of AeadTicketer.
AeadLifetimeOf(self) == Return(Some(U32Of(0, self.lifetime)))

\* Mutex::lock succeeds at once only on a mutex nobody holds.
MutexFree(m) == ~m.held

\* Mutant: a poisoned guard is used like a healthy one.
LockOkIgnoringPoison(m) == TRUE

\* lock().ok()?: the call goes on only with an unpoisoned guard.
LockOk(m) == ~m.poisoned

(***************************************************************************)
(* Inputs of the calls.                                                    *)
(***************************************************************************)
Msgs == {<<>>, <<104, 105>>}
Forged == Fill(NonceLen + TagLen, 0)
ShortLens == {0, NonceLen - 1, NonceLen, NonceLen + TagLen - 1}
\* A peer presents the observed ticket, a forged blob, or a cut-off piece of one.
Presented == {t.bytes : t \in ticket} \cup {Forged}
CutFrom == IF ticket = None THEN Forged ELSE TheOne(ticket).bytes
DecryptInputs == Presented \cup {Take(CutFrom, n) : n \in ShortLens}
Ops == {"encrypt", "decrypt"}
ArgsOf(op) == IF op = "encrypt" THEN Msgs ELSE DecryptInputs

\* The locals of a thread that is in no call, and the record of no call.
NoState == [current |-> AeadTicketerNew(0), previous |-> None, next_switch_time |-> 0]
Idle == [op |-> "none", arg |-> <<>>, now |-> 0, pre |-> NoState, gen |-> "notcalled",
         retry |-> FALSE, poisoned |-> FALSE]
NoLast == [op |-> "none", arg |-> <<>>, out |-> "none", res |-> None, now |-> 0,
           pre |-> NoState, gen |-> "notcalled", rand |-> "unused", retry |-> FALSE,
           poisoned |-> FALSE, tried |-> <<>>]

Done(l, out, res, rand) ==
    [op |-> l.op, arg |-> l.arg, out |-> out, res |-> res, now |-> l.now, pre |-> l.pre,
     gen |-> l.gen, rand |-> rand, retry |-> l.retry, poisoned |-> l.poisoned,
     tried |-> <<>>]

(***************************************************************************)
(* Init: the state TicketSwitcher::new leaves.                             *)
(***************************************************************************)
Init ==
    /\ clock \in InitTimes
    /\ lifetime \in Periods
    /\ state = [current |-> AeadTicketerNew(1), previous |-> None,
                next_switch_time |-> clock + lifetime]
    /\ mutex = [held |-> FALSE, poisoned |-> FALSE]
    /\ pc = [t \in Threads |-> "idle"]
    /\ local = [t \in Threads |-> Idle]
    /\ made = 1
    /\ heap = {AeadTicketerNew(1)}
    /\ failed = FALSE
    /\ ticket = None
    /\ last = NoLast
    /\ rolledAt = clock

(***************************************************************************)
(* The clock: it advances, and it may jump back.                           *)
(***************************************************************************)
Tick ==
    /\ clock < MaxTime
    /\ clock' = clock + 1
    /\ last' = NoLast
    /\ UNCHANGED <<lifetime, state, mutex, pc, local, made, heap, failed, ticket, rolledAt>>

ClockBack ==
    /\ clock > 0
    /\ clock' = clock - 1
    /\ last' = NoLast
    /\ UNCHANGED <<lifetime, state, mutex, pc, local, made, heap, failed, ticket, rolledAt>>

(***************************************************************************)
(* encrypt/decrypt, step by step.                                          *)
(***************************************************************************)
\* self.state.lock().ok()? on a healthy mutex: the call now holds the guard.
Lock(t) ==
    /\ pc[t] = "idle"
    /\ MutexFree(mutex)
    /\ LockOk(mutex)
    /\ \E op \in Ops :
          local' = [local EXCEPT ![t] = [Idle EXCEPT !.op = op, !.pre = state,
                                                      !.retry = failed,
                                                      !.poisoned = mutex.poisoned]]
    /\ mutex' = [mutex EXCEPT !.held = TRUE]
    /\ pc' = [pc EXCEPT ![t] = "locked"]
    /\ last' = NoLast
    /\ UNCHANGED <<clock, lifetime, state, made, heap, failed, ticket, rolledAt>>

\* self.state.lock().ok()? on a poisoned mutex: lock() gives Err, the call returns None.
LockPoisoned(t) ==
    /\ pc[t] = "idle"
    /\ MutexFree(mutex)
    /\ ~LockOk(mutex)
    /\ \E op \in Ops : \E arg \in ArgsOf(op) :
          last' = [NoLast EXCEPT !.op = op, !.arg = arg, !.out = "lockfail",
                                 !.pre = state, !.retry = failed, !.poisoned = TRUE]
    /\ UNCHANGED <<clock, lifetime, state, mutex, pc, local, made, heap, failed, ticket, rolledAt>>

\* maybe_roll, the deadline not passed: Ok(()) with nothing done.
RollNotDue(t) ==
    /\ pc[t] = "locked"
    /\ ~RollDue(clock, state)
    /\ local' = [local EXCEPT ![t].now = clock]
    /\ pc' = [pc EXCEPT ![t] = "use"]
    /\ UNCHANGED <<clock, lifetime, state, mutex, made, heap, failed, ticket, last, rolledAt>>

\* maybe_roll, the deadline passed and (self.generator)()? fails: the call returns None.
RollGenFail(t) ==
    /\ pc[t] = "locked"
    /\ RollDue(clock, state)
    /\ failed' = TRUE
    /\ \E arg \in ArgsOf(local[t].op) :
          last' = Done([local[t] EXCEPT !.now = clock, !.arg = arg, !.gen = "fail"],
                       "genfail", None, "unused")
    /\ state' = FailedRoll(state)
    /\ mutex' = [mutex EXCEPT !.held = FALSE]
    /\ pc' = [pc EXCEPT ![t] = "idle"]
    /\ local' = [local EXCEPT ![t] = Idle]
    /\ UNCHANGED <<clock, lifetime, made, heap, ticket, rolledAt>>

\* maybe_roll, the deadline passed and the generator gives a fresh ticketer.
RollDemote(t) ==
    /\ pc[t] = "locked"
    /\ RollDue(clock, state)
    /\ made < MaxKeys
    /\ LET fresh == AeadTicketerNew(made + 1)
       IN  /\ state' = Demote(state, fresh)
           /\ heap' = (heap \ Dropped(state)) \cup {fresh}
    /\ made' = made + 1
    /\ failed' = FALSE
    /\ local' = [local EXCEPT ![t].now = clock, ![t].gen = "ok"]
    /\ pc' = [pc EXCEPT ![t] = "switch"]
    /\ rolledAt' = clock
    /\ UNCHANGED <<clock, lifetime, mutex, ticket, last>>

\* maybe_roll: state.next_switch_time = now + u64::from(self.lifetime)
RollDeadline(t) ==
    /\ pc[t] = "switch"
    /\ state' = SetDeadline(state, local[t].now, lifetime)
    /\ pc' = [pc EXCEPT ![t] = "use"]
    /\ UNCHANGED <<clock, lifetime, mutex, local, made, heap, failed, ticket, last, rolledAt>>

\* state.current.encrypt(message), and the guard is dropped.
Encrypt(t) ==
    /\ pc[t] = "use"
    /\ local[t].op = "encrypt"
    /\ \E message \in Msgs, rnd \in NonceDraws :
          LET r == SwitcherEncrypt(state, message, rnd)
              l == [local[t] EXCEPT !.arg = message]
          IN  IF r.panic
              THEN /\ mutex' = [held |-> FALSE, poisoned |-> TRUE]
                   /\ last' = Done(l, "panic", None, "fail")
                   /\ ticket' = ticket
              ELSE /\ mutex' = [mutex EXCEPT !.held = FALSE]
                   /\ last' = Done(l, "returned", r.val, "ok")
                   /\ \E observe \in BOOLEAN :
                         ticket' = IF observe /\ ticket = None /\ r.val # None
                                   THEN Some([bytes |-> TheOne(r.val),
                                              msg |-> message,
                                              key |-> state.current.key,
                                              t0 |-> local[t].now])
                                   ELSE ticket
    /\ pc' = [pc EXCEPT ![t] = "idle"]
    /\ local' = [local EXCEPT ![t] = Idle]
    /\ UNCHANGED <<clock, lifetime, state, made, heap, failed, rolledAt>>

\* current.decrypt(ciphertext).or_else(previous ...), and the guard is dropped.
Decrypt(t) ==
    /\ pc[t] = "use"
    /\ local[t].op = "decrypt"
    /\ \E ciphertext \in DecryptInputs :
          LET r == SwitcherDecrypt(state, ciphertext)
              tried == SwitcherDecryptTrace(state, ciphertext).tried
              l == [local[t] EXCEPT !.arg = ciphertext]
          IN  IF r.panic
              THEN /\ mutex' = [held |-> FALSE, poisoned |-> TRUE]
                   /\ last' = [Done(l, "panic", None, "unused") EXCEPT !.tried = tried]
              ELSE /\ mutex' = [mutex EXCEPT !.held = FALSE]
                   /\ last' = [Done(l, "returned", r.val, "unused") EXCEPT !.tried = tried]
    /\ pc' = [pc EXCEPT ![t] = "idle"]
    /\ local' = [local EXCEPT ![t] = Idle]
    /\ UNCHANGED <<clock, lifetime, state, made, heap, failed, ticket, rolledAt>>

Next ==
    \/ Tick
    \/ ClockBack
    \/ \E t \in Threads : Lock(t)
    \/ \E t \in Threads : LockPoisoned(t)
    \/ \E t \in Threads : RollNotDue(t)
    \/ \E t \in Threads : RollGenFail(t)
    \/ \E t \in Threads : RollDemote(t)
    \/ \E t \in Threads : RollDeadline(t)
    \/ \E t \in Threads : Encrypt(t)
    \/ \E t \in Threads : Decrypt(t)

Spec == Init /\ [][Next]_vars

(***************************************************************************)
(* lifetime(): a TicketSwitcher is made with a period and asked for its    *)
(* lifetime; it takes no lock and reads only the period.                   *)
(***************************************************************************)
PeriodInputs ==
    {U32Of(hi, lo) : hi \in {0, 1, U16 \div 2 - 1, U16 \div 2, U16 - 1},
                     lo \in 0..5 \cup {FactoryPeriod, U16 \div 2, U16 - 2, U16 - 1}}

NewLifetime ==
    /\ \E period \in PeriodInputs, build \in Builds :
          LET r == SwitcherLifetime(period, build)
          IN  last' = [NoLast EXCEPT !.op = "lifetime", !.arg = period,
                                     !.out = IF r.panic THEN "panic" ELSE "returned",
                                     !.res = r.val]
    /\ UNCHANGED <<clock, lifetime, state, mutex, pc, local, made, heap, failed, ticket, rolledAt>>

AeadLifetime43200 ==
    /\ LET r == AeadLifetimeOf(state.current)
       IN  last' = [NoLast EXCEPT !.op = "aead_lifetime", !.out = "returned", !.res = r.val]
    /\ UNCHANGED <<clock, lifetime, state, mutex, pc, local, made, heap, failed, ticket, rolledAt>>

NextLifetime == NewLifetime \/ AeadLifetime43200

SpecLifetime == Init /\ [][NextLifetime]_vars

(***************************************************************************)
(* The claims.  `last` is the call that completed in the latest step and   *)
(* `state` is then the state that call left.  Keys are numbered in the     *)
(* order the generator made them, so made - tk.key is the number of        *)
(* rotations since ticket tk was produced.                                 *)
(***************************************************************************)
RotationsSince(tk) == made - tk.key
DecryptOf(tk) == last.op = "decrypt" /\ last.out # "none" /\ last.arg = tk.bytes
\* The call got past maybe_roll: its rotation check succeeded.
Checked == last.out \in {"returned", "panic"}

\* C1: a decrypt call whose rotation check succeeds returns exactly m for a blob
\* that encrypt(m) returned, when at most one rotation has happened since.
C1_RotationFallback ==
    \A tk \in ticket :
        (DecryptOf(tk) /\ Checked /\ RotationsSince(tk) <= 1) => last.res = Some(tk.msg)

\* C1 witness: a ticket made under the key that is now `previous` was decrypted.
C1_Witness ==
    \E tk \in ticket :
        /\ DecryptOf(tk) /\ Checked /\ RotationsSince(tk) = 1
        /\ state.previous = Some(AeadTicketerNew(tk.key))
        /\ tk.msg # <<>> /\ last.res = Some(tk.msg)

\* C2: once two rotations have happened since a blob was produced, every decrypt of
\* it returns none; a blob produced between the two rotations is still decrypted
\* by a call whose rotation check succeeds.
C2_DoubleRotationErasure ==
    \A tk \in ticket :
        DecryptOf(tk) =>
            /\ RotationsSince(tk) >= 2 => last.res = None
            /\ (Checked /\ made >= 3 /\ RotationsSince(tk) = 1) => last.res = Some(tk.msg)

\* C2 witness: a decrypt got past its rotation check and found the key erased.
C2_Witness ==
    \E tk \in ticket :
        /\ DecryptOf(tk) /\ Checked /\ RotationsSince(tk) = 2
        /\ last.res = None

\* C3: a decrypt call that reads clock value t returns no plaintext for a blob that
\* an encrypt call produced at clock value t0 when t - t0 > 2 * rotation period.
C3_AcceptedAtMostTwicePeriod ==
    \A tk \in ticket :
        (DecryptOf(tk) /\ Checked /\ last.now - tk.t0 > 2 * lifetime) => last.res = None

\* C4: when a rotation is due and the generator fails, the call returns none and
\* current, previous and next_switch_time are what they were before the call.
C4_GeneratorFailureKeepsState ==
    last.gen = "fail" =>
        /\ last.out = "genfail" /\ last.res = None
        /\ last.now > last.pre.next_switch_time
        /\ state = last.pre

\* C4 witness: the generator failed in a call made with a previous ticketer in place.
C4_Witness ==
    /\ last.gen = "fail" /\ last.res = None
    /\ last.pre.previous # None /\ state = last.pre

\* The state a call that got past maybe_roll must see: the state it locked, or that
\* state rotated once, whole.
AfterCheck(l) ==
    IF l.gen = "ok"
    THEN SetDeadline(Demote(l.pre, AeadTicketerNew(l.pre.current.key + 1)), l.now, lifetime)
    ELSE l.pre

\* C5: after a failed rotation attempt, a call that reads now > next_switch_time asks
\* the generator again; when the generator succeeds the rotation is completed and
\* the call goes on to its current/previous ticketers.
C5_RetryAfterGeneratorFailure ==
    (last.retry /\ last.out \in {"genfail", "returned", "panic"}
                /\ last.now > last.pre.next_switch_time) =>
        /\ last.gen # "notcalled"
        /\ last.gen = "ok" =>
              /\ Checked /\ ~failed
              /\ state.previous = Some(last.pre.current)
              /\ state.current \notin {last.pre.current} \cup last.pre.previous
              /\ state.next_switch_time = last.now + lifetime

\* C5 witness: a call after a failed attempt got a ticketer and completed the rotation.
C5_Witness ==
    /\ last.retry /\ last.gen = "ok" /\ last.out = "returned"
    /\ last.now > last.pre.next_switch_time
    /\ state.previous = Some(last.pre.current)

\* C6: at most one call is inside lock..return at a time; the state a call works on is
\* the state it locked, changed only by its own rotation, and what it uses after
\* maybe_roll is entirely pre-rotation or entirely post-rotation; generations become
\* current in the order they are made.
C6_Atomicity ==
    /\ Cardinality({t \in Threads : pc[t] # "idle"}) <= 1
    /\ mutex.held <=> (\E t \in Threads : pc[t] # "idle")
    /\ \A t \in Threads :
          /\ pc[t] = "locked" => state = local[t].pre
          /\ pc[t] = "switch" =>
                state = Demote(local[t].pre, AeadTicketerNew(local[t].pre.current.key + 1))
          /\ pc[t] = "use" => state = AfterCheck(local[t])
    /\ Checked =>
          /\ state = AfterCheck(last)
          /\ last.op = "decrypt" => last.res = SwitcherDecrypt(state, last.arg).val
    /\ state.current.key = made

\* C6 witness: a call is between the two writes of its rotation, the clock has moved
\* on since it read it, and every other thread is outside.
C6_Witness ==
    \E t \in Threads :
        /\ pc[t] = "switch" /\ clock # local[t].now
        /\ \A u \in Threads \ {t} : pc[u] = "idle"

\* C7: the switcher holds at most two ticketers, current and optionally previous;
\* previous, when present, is the one that was current right before the latest
\* rotation, and no older ticketer is left.
C7_TwoGenerations ==
    /\ heap = {state.current} \cup state.previous
    /\ Cardinality(heap) <= 2
    /\ state.current = AeadTicketerNew(made)
    /\ state.previous = IF made = 1 THEN None ELSE Some(AeadTicketerNew(made - 1))

\* C7 witness: after two rotations the first ticketer is gone.
C7_Witness ==
    /\ made = 3 /\ Cardinality(heap) = 2
    /\ AeadTicketerNew(1) \notin heap
    /\ state.previous = Some(AeadTicketerNew(2))

\* C8: encrypt returns none, and does not panic, when the random source fails while
\* the nonce is drawn.
C8_NonceFailureReturnsNone ==
    last.rand = "fail" => (last.out = "returned" /\ last.res = None)

\* C9: a call on a poisoned mutex returns none at once, does not panic, does not ask
\* the generator and changes nothing.
C9_PoisonedLockReturnsNone ==
    /\ \A t \in Threads : pc[t] # "idle" => ~local[t].poisoned
    /\ mutex.poisoned => ~mutex.held
    /\ last.poisoned =>
          /\ last.out = "lockfail" /\ last.res = None
          /\ last.gen = "notcalled" /\ last.rand = "unused"
          /\ state = last.pre

\* C9 witness: an encrypt on a poisoned mutex returned none although a rotation was due.
C9_Witness ==
    /\ last.poisoned /\ last.out = "lockfail" /\ last.op = "encrypt"
    /\ last.res = None
    /\ clock > state.next_switch_time

ShortBlobs == {Take(b, n) : b \in Presented, n \in 0..(NonceLen + TagLen - 1)}

\* C10: decrypt of a blob shorter than nonce_len + tag_len returns none and does not
\* panic, on every AeadTicketer and on the TicketSwitcher, whose state is left as any
\* other call leaves it.
C10_ShortBlobRejected ==
    /\ \A b \in ShortBlobs :
          /\ \A tk \in heap : AeadDecrypt(tk, b) = Return(None)
          /\ SwitcherDecrypt(state, b) = Return(None)
    /\ (last.op = "decrypt" /\ last.out # "none" /\ Len(last.arg) < NonceLen + TagLen) =>
          /\ last.res = None /\ last.out # "panic"
          /\ Checked => (state = AfterCheck(last) /\ ~mutex.poisoned)

\* C10 witness: a 27-byte piece of a ticket was refused with both ticketers in place.
C10_Witness ==
    \E tk \in ticket :
        /\ last.op = "decrypt" /\ last.out = "returned"
        /\ last.arg = Take(tk.bytes, NonceLen + TagLen - 1)
        /\ state.previous # None /\ last.res = None

\* C11: decrypt(encrypt(m)) = m for every message m, on every AeadTicketer and on a
\* TicketSwitcher with no rotation between the two calls; enabled() is true.
C11_RoundTrip ==
    /\ \A tk \in heap : \A m \in Msgs : \A rnd \in NonceDraws \ {RandFail} :
          /\ AeadDecrypt(tk, TheOne(AeadEncrypt(tk, m, rnd).val)) = Return(Some(m))
          /\ AeadEnabled(tk)
    /\ SwitcherEnabled(state)
    /\ \A tk \in ticket :
          (DecryptOf(tk) /\ Checked /\ RotationsSince(tk) = 0) => last.res = Some(tk.msg)

\* C11 witness: a switcher that never rotated gave back the message of its own ticket.
C11_Witness ==
    \E tk \in ticket :
        /\ DecryptOf(tk) /\ Checked /\ made = 1 /\ state.previous = None
        /\ tk.msg = <<104, 105>> /\ last.res = Some(tk.msg)
        /\ Len(tk.bytes) = NonceLen + Len(tk.msg) + TagLen

\* Half of an even u32.
HalfU32(x) == U32Of(x.hi \div 2, (x.hi % 2) * (U16 \div 2) + x.lo \div 2)

\* C12: for every u32 period p, lifetime() of a TicketSwitcher made with p returns
\* exactly 2 * p; for the period of Ticketer::new() it returns 43200.
C12_LifetimeIsTwicePeriod ==
    last.op = "lifetime" =>
        /\ last.out = "returned"
        /\ \A v \in last.res : v.lo % 2 = 0 /\ HalfU32(v) = last.arg
        /\ last.arg = U32Of(0, FactoryPeriod) => last.res = Some(U32Of(0, AeadLifetime))

\* C13: a decrypt that got past maybe_roll returns what current.decrypt returns when
\* that is a value and then asks nobody else; otherwise it returns what
\* previous.decrypt returns when there is a previous, and none when there is not.
C13_DecryptOrder ==
    (last.op = "decrypt" /\ Checked) =>
        LET c == AeadDecrypt(state.current, last.arg).val
        IN  /\ c # None => (last.res = c /\ last.tried = <<state.current>>)
            /\ (c = None /\ state.previous = None) =>
                  (last.res = None /\ last.tried = <<state.current>>)
            /\ (c = None /\ state.previous # None) =>
                  /\ last.res = AeadDecrypt(TheOne(state.previous), last.arg).val
                  /\ last.tried = <<state.current, TheOne(state.previous)>>

\* C13 witness: current decrypted the ticket and previous, though there, was not asked.
C13_Witness ==
    \E tk \in ticket :
        /\ DecryptOf(tk) /\ Checked /\ state.previous # None
        /\ last.res = Some(tk.msg) /\ last.tried = <<state.current>>

\* C14: a blob that TicketSwitcher.encrypt returns is made by the ticketer that is
\* current after the call's rotation check, the fresh one if the call rotated; it is
\* made with no other ticketer, previous or discarded.
C14_EncryptWithCurrent ==
    (last.op = "encrypt" /\ last.out = "returned") =>
        /\ state = AfterCheck(last)
        /\ \E rnd \in NonceDraws : last.res = AeadEncrypt(state.current, last.arg, rnd).val
        /\ \A b \in last.res :
              /\ AeadDecrypt(state.current, b) = Return(Some(last.arg))
              /\ \A k \in 1..made :
                    k # state.current.key => AeadDecrypt(AeadTicketerNew(k), b).val = None

\* C14 witness: an encrypt call rotated and returned a blob of the fresh ticketer.
C14_Witness ==
    /\ last.op = "encrypt" /\ last.out = "returned" /\ last.gen = "ok"
    /\ last.res # None /\ state.previous = Some(last.pre.current)
    /\ \A b \in last.res : AeadDecrypt(state.current, b).val = Some(last.arg)

\* C15: a call that reads now <= next_switch_time does not ask the generator and
\* leaves current, previous and next_switch_time as they were; a call rotates, or
\* asks the generator, only when it read now > next_switch_time.
C15_NoRotationBeforeDeadline ==
    /\ \A t \in Threads :
          pc[t] \in {"switch", "use"} =>
              /\ local[t].now <= local[t].pre.next_switch_time =>
                    (local[t].gen = "notcalled" /\ state = local[t].pre)
              /\ state # local[t].pre => local[t].now > local[t].pre.next_switch_time
    /\ last.out \in {"genfail", "returned", "panic"} =>
          /\ last.now <= last.pre.next_switch_time =>
                (last.gen = "notcalled" /\ state = last.pre)
          /\ (last.gen # "notcalled" \/ state # last.pre) =>
                last.now > last.pre.next_switch_time

\* C15 witness: a call read the clock exactly at the deadline and changed nothing.
C15_Witness ==
    /\ Checked /\ last.now = last.pre.next_switch_time /\ last.now > 0
    /\ last.gen = "notcalled" /\ state = last.pre

\* No call is between the two writes of maybe_roll (lines 153 and 154).
NotMidRotation == \A t \in Threads : pc[t] # "switch"

\* C16: next_switch_time = T + rotation period, T being the clock value read at
\* construction (then previous is none and nothing has rotated) or by the latest
\* successful rotation; it is never counted from the old deadline.
C16_DeadlineFromNow ==
    /\ NotMidRotation => state.next_switch_time = rolledAt + lifetime
    /\ made = 1 => (state.previous = None /\ rolledAt \in InitTimes)
    /\ (Checked /\ last.gen = "ok") =>
          (rolledAt = last.now /\ state.next_switch_time = last.now + lifetime)

\* C16 witness: a call rotated later than its deadline and the new deadline is
\* counted from the clock value it read.
C16_Witness ==
    /\ Checked /\ last.gen = "ok" /\ lifetime > 0
    /\ last.now > last.pre.next_switch_time + 1
    /\ state.next_switch_time = last.now + lifetime
    /\ state.next_switch_time # last.pre.next_switch_time + lifetime

\* C17: whatever the clock does, next_switch_time never decreases, and a call
\* rotates only when the clock value it reads exceeds next_switch_time; so a call
\* that reads a lower value than an earlier call rotates only in that case.
C17_BackwardClockOnlyDelays ==
    [][/\ state'.next_switch_time >= state.next_switch_time
       /\ (state'.current # state.current \/ made' # made) =>
             clock > state.next_switch_time]_vars

\* C17 witness: after a rotation the clock jumped back, and a call that read the
\* lower value went through without rotating and without moving the deadline.
C17_Witness ==
    /\ Checked /\ made >= 2 /\ last.now < rolledAt
    /\ last.gen = "notcalled" /\ state = last.pre
    /\ state.next_switch_time = rolledAt + lifetime

\* C18: no call leaves the lock poisoned, and no call fails to lock.
C18_LockNeverPoisoned ==
    /\ ~mutex.poisoned
    /\ last.out # "lockfail"

\* C19: a call that got past its rotation check rotated at most once: either the
\* state is as before the call, or `previous` is the ticketer that was `current`
\* before the call and `current` is the next generation; a call whose generator
\* failed left the state as it was.
C19_AtMostOneRotation ==
    /\ Checked =>
          IF last.gen = "ok"
          THEN /\ state.previous = Some(last.pre.current)
               /\ state.current.key = last.pre.current.key + 1
               /\ made = last.pre.current.key + 1
          ELSE state = last.pre
    /\ last.out = "genfail" => state = last.pre

\* C19 witness: a call that read a clock value at least two periods past the
\* deadline rotated once.
C19_Witness ==
    /\ Checked /\ last.gen = "ok" /\ lifetime >= 1
    /\ last.now - last.pre.next_switch_time >= 2 * lifetime
    /\ state.previous = Some(last.pre.current)
    /\ state.current.key = last.pre.current.key + 1

\* A call that has read the clock value of the latest rotation without rotating.
SameTickFollower(t) ==
    /\ pc[t] = "use" /\ made >= 2
    /\ local[t].now = rolledAt /\ local[t].gen = "notcalled"

\* C20: no rotation happens at the clock value the latest rotation read, for every
\* period; a call that reads that value does not rotate and finds the key that was
\* current before that rotation in `previous`.
C20_OneRotationPerBurst ==
    [][/\ made' # made => clock > rolledAt
       /\ \A t \in Threads :
             SameTickFollower(t) =>
                 /\ state.previous = Some(AeadTicketerNew(made - 1))
                 /\ state'.previous = state.previous
                 /\ state'.current = state.current]_vars

\* C20 witness: with period 0, a second call read the clock value of the rotation
\* and did not rotate; the key of before the rotation is `previous`.
C20_Witness ==
    /\ lifetime = 0 /\ rolledAt > 0
    /\ \E t \in Threads :
          /\ SameTickFollower(t)
          /\ state.previous = Some(AeadTicketerNew(made - 1))
          /\ state.current = AeadTicketerNew(made)

====
